---- MODULE Spec2Model ----
(***************************************************************************)
(* Client-side orchestration of a RagFile import:                          *)
(*   scripts/import_and_wait_rag_files.py   (variant "wait")               *)
(*   scripts/import_with_sink.py            (variant "sink")               *)
(*   scripts/import_with_sink_chunked.py    (variant "chunked")            *)
(*                                                                         *)
(* One behaviour is one run of one script.  The remote service, the clock  *)
(* and the gsutil subprocess are the environment: every response, clock    *)
(* reading and subprocess result is drawn from a small set.  Time is what  *)
(* the scripts see of it: the value returned by time.time() at the places  *)
(* where the code calls it.                                                *)
(***************************************************************************)
EXTENDS Integers, Sequences, FiniteSets, TLC

\* ----------------------------------------------------------------------
\* Bounds of the model
\* ----------------------------------------------------------------------
MaxTimeout == 2     \* --timeout-minutes, in clock ticks: 0 or MaxTimeout
MaxJump == 1        \* largest advance of the clock between two readings, besides sleeps
MaxFailed == 1      \* failedRagFilesCount: 0..MaxFailed
MaxPF == 1          \* number of partialFailures entries: 0..MaxPF
MaxPages == 2       \* pages one listing may have
PollSeconds == 1    \* --poll-seconds, in clock ticks
MaxContexts == 2    \* contexts one retrieveContexts response carries

Variants == {"wait", "sink", "chunked"}
SinkVariants == {"sink", "chunked"}

\* names of the resources the corpus may list
RagNames == {"r1", "r2"}
\* a listed record without a "name"
NoName == "-"

\* exit status of a process that has not exited yet
Running == 0 - 1

\* ----------------------------------------------------------------------
\* Remote payloads
\* ----------------------------------------------------------------------
\* "failedRagFilesCount" missing from the response (or no response at all)
NoCount == 0 - 1

\* The Operation JSON: done, error (absent / present but empty / set),
\* response.failedRagFilesCount, metadata.genericMetadata.partialFailures.
OpObjects ==
    [done : BOOLEAN, error : {"absent", "empty", "set"},
     failed : {NoCount} \cup (0..MaxFailed), pf : 0..MaxPF]

NotDoneOp == [done |-> FALSE, error |-> "absent", failed |-> NoCount, pf |-> 0]
\* the body the service sends with an error status: {"error": {...}}
ErrorBody == [done |-> FALSE, error |-> "set", failed |-> NoCount, pf |-> 0]

DoneOps == {o \in OpObjects : o.done}

\* HTTP statuses the service answers with
StatusCodes == {200, 503}

\* What one GET of the operation can bring: the transport raises, or a
\* response with a status and a body that is JSON (json = TRUE, obj) or not.
OpResponses ==
    {[kind |-> "exc", status |-> 0, json |-> FALSE, obj |-> NotDoneOp]}
    \cup {[kind |-> "resp", status |-> 200, json |-> TRUE, obj |-> o] :
             o \in DoneOps \cup {NotDoneOp}}
    \cup {[kind |-> "resp", status |-> 200, json |-> FALSE, obj |-> NotDoneOp]}
    \cup {[kind |-> "resp", status |-> 503, json |-> b, obj |-> ErrorBody] :
             b \in BOOLEAN}

\* op.get("error") as a condition
Truthy(error) == error = "set"

\* int(resp.get("failedRagFilesCount", "0"))
FailedCount(o) == IF o.failed = NoCount THEN 0 ELSE o.failed

\* extract_partial_failures(op): the list, here its length
extract_partial_failures(o) == o.pf

\* ----------------------------------------------------------------------
\* The operation poller's decisions
\* ----------------------------------------------------------------------
\* http_json: the request raised, the status is not 2xx, or the body is not
\* JSON; each of them ends the process through exit_with_error.
http_json_fails(r) ==
    \/ r.kind = "exc"
    \/ ~(200 <= r.status /\ r.status < 300)
    \/ ~r.json

\* How one GET of the operation ends in each script: "none" when the body is
\* taken as the operation snapshot, otherwise the way the run aborts.
get_operation_wait(r) ==
    IF http_json_fails(r) THEN "TransportError" ELSE "none"

get_operation_sink(r) ==
    IF r.kind = "exc" THEN "Crash"
    ELSE IF r.status >= 400 THEN "TransportError"
    ELSE IF ~r.json THEN "Crash"
    ELSE "none"

get_operation_chunked(r) ==
    IF r.kind = "exc" THEN "Crash"
    ELSE IF ~r.json THEN "Crash"
    ELSE "none"

GetOperation(v, r) ==
    CASE v = "wait" -> get_operation_wait(r)
      [] v = "sink" -> get_operation_sink(r)
      [] v = "chunked" -> get_operation_chunked(r)

\* The result line printed for a snapshot with done = true.
\* (faulty variant: the partial failures are not looked at)
classify_wait_no_partial(o) ==
    IF Truthy(o.error) THEN "FAILED"
    ELSE IF FailedCount(o) > 0 THEN "FAILED"
    ELSE "COMPLETED"

classify_wait(o) ==
    IF Truthy(o.error) THEN "FAILED"
    ELSE IF FailedCount(o) > 0 \/ extract_partial_failures(o) > 0 THEN "FAILED"
    ELSE "COMPLETED"

classify_sink(o) ==
    IF Truthy(o.error) THEN "FAILED"
    ELSE IF FailedCount(o) > 0 \/ o.pf > 0 THEN "FAILED"
    ELSE "COMPLETED"

\* (faulty variant: the partial failures are not looked at)
classify_chunked_no_partial(o) ==
    IF Truthy(o.error) THEN "FAILED"
    ELSE IF FailedCount(o) > 0 THEN "FAILED"
    ELSE "COMPLETED"

classify_chunked(o) ==
    IF Truthy(o.error) THEN "FAILED"
    ELSE IF FailedCount(o) > 0 \/ o.pf > 0 THEN "FAILED"
    ELSE "COMPLETED"

Classify(v, o) ==
    CASE v = "wait" -> classify_wait(o)
      [] v = "sink" -> classify_sink(o)
      [] v = "chunked" -> classify_chunked(o)

\* The value of the last return statement of the sink scripts:
\* 0 if obj.get("error") is None and the failed count is 0, else 1.
\* (faulty variant: the failed count is not looked at)
sink_return_error_only(o) ==
    IF o.error = "absent" THEN 0 ELSE 1

sink_return(o) ==
    IF o.error = "absent" /\ FailedCount(o) = 0 THEN 0 ELSE 1

chunked_return(o) ==
    IF o.error = "absent" /\ FailedCount(o) = 0 THEN 0 ELSE 1

\* ----------------------------------------------------------------------
\* State of one run
\* ----------------------------------------------------------------------
VARIABLES
    variant,        \* which script runs
    timeout,        \* args.timeout_minutes * 60, in ticks
    pc,             \* position of the script
    now,            \* the last value time.time() returned
    slept,          \* time slept since that reading
    deadline,       \* deadline of the operation poll loop
    rf_deadline,    \* deadline of discovery and activation
    op,             \* the latest operation snapshot
    opClass,        \* result printed for the done snapshot: none, COMPLETED, FAILED
    all_files,      \* list_rag_files: records accumulated over the pages
    pages,          \* pages fetched by the current listing
    names,          \* names of the last listing
    pending,        \* names not yet seen ACTIVE
    todo,           \* names the current sweep has not reached yet
    outcome,        \* terminal outcome, "none" while running
    exitCode,       \* process exit status, Running while running
    report,         \* what the terminal message names
    fetchFailed,    \* history: a GET of the operation failed
    refetched,      \* history: the operation was fetched again after a failed GET
    opFetches,      \* history: GETs of the operation issued
    activeSeen,     \* history: names fetched in state ACTIVE before rf_deadline
    emptyListings,  \* history: listings that brought no name
    lastFetch,      \* history: the RagFile fetched last: its name, state and errorStatus
    rfFetched,      \* history: some resource was fetched
    sinkLs,         \* history: how "gsutil ls" of the sink ended
    existing,       \* names of the RagFiles the corpus held before the import
    submitResp,     \* history: what the import request brought
    listed,         \* history: a page of the corpus listing was requested
    received,       \* history: how often the pages of the current listing brought each name
    sweepOrder,     \* history: names fetched by the current sweep, in order
    posts,          \* history: POST requests issued
    page_token,     \* list_rag_files: the nextPageToken of the page fetched last
    \* demo_app/main.py, one request to /api/ask
    askPc,          \* position of the handler
    contexts,       \* what retrieve_contexts returned
    askStatus,      \* status code of the response, 0 before it
    askBody,        \* what the response carries
    retrieveFailed, \* history: retrieve_contexts raised
    generateFailed, \* history: generate_answer raised
    generateCalls,  \* history: calls of generate_answer
    escaped,        \* an exception left the handler
    answer,         \* what generate_answer returned
    askError        \* the exception raised inside the handler, "none" without one

vars == <<variant, timeout, pc, now, slept, deadline, rf_deadline, op, opClass,
          all_files, pages, names, pending, todo, outcome, exitCode, report,
          fetchFailed, refetched, opFetches, activeSeen, emptyListings, lastFetch,
          rfFetched, sinkLs, existing, submitResp, listed, received, sweepOrder, posts,
          page_token, askPc, contexts, askStatus, askBody, retrieveFailed, generateFailed,
          generateCalls, escaped, answer, askError>>

\* the state of the import run that the actions of /api/ask leave alone
importVars == <<variant, timeout, pc, now, slept, deadline, rf_deadline, op, opClass,
                all_files, pages, names, pending, todo, outcome, exitCode, report,
                fetchFailed, refetched, opFetches, activeSeen, emptyListings, lastFetch,
                rfFetched, sinkLs, existing, submitResp, listed, received, sweepOrder,
                posts, page_token>>

\* the state of /api/ask that the actions of the import run leave alone
askVars == <<askPc, contexts, askStatus, askBody, retrieveFailed, generateFailed,
             generateCalls, escaped, answer, askError>>

NoReport == [count |-> 0, names |-> {}, detail |-> ""]
NoFetch == [name |-> NoName, state |-> "absent", err |-> ""]

\* time.time(): the clock never runs backwards, and a sleep has elapsed in full
ClockReadings == {now + slept + d : d \in 0..MaxJump}

\* page_token = None
NoToken == "None"

\* before the import request was sent
NoSubmit == [kind |-> "none", status |-> 0, json |-> FALSE, named |-> FALSE]

\* the corpus before the import: empty, or holding one RagFile already
ExistingChoices == {{}, {"r1"}}

NothingReceived == [x \in RagNames |-> 0]

\* no request to /api/ask is being served
AskParked ==
    /\ askPc = "off"
    /\ contexts = <<>>
    /\ askStatus = 0
    /\ askBody = "none"
    /\ retrieveFailed = FALSE
    /\ generateFailed = FALSE
    /\ generateCalls = 0
    /\ escaped = FALSE
    /\ answer = "none"
    /\ askError = "none"

\* a script starts: arguments parsed, nothing requested yet
ImportStart ==
    /\ pc = "start"
    /\ now = 0
    /\ slept = 0
    /\ deadline = 0
    /\ rf_deadline = 0
    /\ op = NotDoneOp
    /\ opClass = "none"
    /\ all_files = <<>>
    /\ pages = 0
    /\ names = <<>>
    /\ pending = {}
    /\ todo = {}
    /\ outcome = "none"
    /\ exitCode = Running
    /\ report = NoReport
    /\ fetchFailed = FALSE
    /\ refetched = FALSE
    /\ opFetches = 0
    /\ activeSeen = {}
    /\ emptyListings = 0
    /\ lastFetch = NoFetch
    /\ rfFetched = FALSE
    /\ sinkLs = "none"
    /\ submitResp = NoSubmit
    /\ listed = FALSE
    /\ received = NothingReceived
    /\ sweepOrder = <<>>
    /\ posts = 0
    /\ page_token = NoToken

Init ==
    /\ variant \in Variants
    /\ timeout \in {0, MaxTimeout}
    /\ existing \in ExistingChoices
    /\ ImportStart
    /\ AskParked

\* sys.exit(code) / return code / an uncaught exception (status 1)
Exit(kind, code, rep) ==
    /\ pc' = "done"
    /\ outcome' = kind
    /\ exitCode' = code
    /\ report' = rep

Continue(next) ==
    /\ pc' = next
    /\ UNCHANGED <<outcome, exitCode, report>>

\* ----------------------------------------------------------------------
\* Submission
\* ----------------------------------------------------------------------
\* What the POST ...ragFiles:import can bring.
\* (300: a status outside 2xx and below 400, which requests hands back as it is)
SubmitResponses ==
    {[kind |-> "exc", status |-> 0, json |-> FALSE, named |-> FALSE]}
    \cup {[kind |-> "resp", status |-> 200, json |-> TRUE, named |-> b] : b \in BOOLEAN}
    \cup {[kind |-> "resp", status |-> 200, json |-> FALSE, named |-> FALSE]}
    \cup {[kind |-> "resp", status |-> 503, json |-> b, named |-> FALSE] : b \in BOOLEAN}
    \cup {[kind |-> "resp", status |-> 300, json |-> TRUE, named |-> b] : b \in BOOLEAN}

\* import_rag_files: "none" when an operation name came back
import_rag_files(r) ==
    IF http_json_fails(r) THEN "SubmissionError"
    ELSE IF ~r.named THEN "SubmissionError"
    ELSE "none"

\* the submission of import_with_sink.py and import_with_sink_chunked.py
submit_sink(r) ==
    IF r.kind = "exc" THEN "Crash"
    ELSE IF r.status >= 400 THEN "SubmissionError"
    ELSE IF ~r.json THEN "Crash"
    ELSE IF ~r.named THEN "SubmissionError"
    ELSE "none"

SubmitResult(v, r) ==
    IF v = "wait" THEN import_rag_files(r) ELSE submit_sink(r)

\* the sink scripts refuse a --gcs-uri / --sink-prefix that is no gs:// URI
BadArguments ==
    /\ pc = "start"
    /\ variant \in SinkVariants
    /\ Exit("UsageError", 2, NoReport)
    /\ UNCHANGED <<variant, timeout, now, slept, deadline, rf_deadline, op, opClass,
                   all_files, pages, names, pending, todo,
                   fetchFailed, refetched, opFetches, activeSeen, emptyListings, lastFetch,
                   rfFetched, sinkLs>>
    /\ UNCHANGED <<page_token, existing, submitResp, listed, received, sweepOrder, posts>>
    /\ UNCHANGED askVars

\* (faulty variant: the listing is requested with POST)
RequestMethod_list_posts(call) ==
    IF call \in {"import", "list"} THEN "POST" ELSE "GET"

\* the HTTP method of each remote call of the scripts
RequestMethod(call) ==
    IF call = "import" THEN "POST" ELSE "GET"

\* POST requests counted after one more call
Posts(call) == IF RequestMethod(call) = "POST" THEN posts + 1 ELSE posts

\* (faulty variant: one deadline for the operation and for the convergence)
convergence_deadline_shared(t) == deadline

\* deadline = time.time() + timeout_minutes * 60, with t the clock's reading
operation_deadline(t) == t + timeout

\* rf_deadline = time.time() + timeout_minutes * 60, with t the clock's reading
convergence_deadline(t) == t + timeout

\* the import request, and on success the deadline of the poll loop
Submit ==
    /\ pc = "start"
    /\ posts' = Posts("import")
    /\ \E r \in SubmitResponses :
         /\ submitResp' = r
         /\ LET res == SubmitResult(variant, r) IN
            IF res # "none"
            THEN /\ Exit(res, 1, NoReport)
                 /\ UNCHANGED <<now, slept, deadline>>
            ELSE /\ \E t \in ClockReadings :
                       /\ now' = t
                       /\ deadline' = operation_deadline(t)
                 /\ slept' = 0
                 /\ Continue("poll")
    /\ UNCHANGED <<variant, timeout, rf_deadline, op, opClass,
                   all_files, pages, names, pending, todo,
                   fetchFailed, refetched, opFetches, activeSeen, emptyListings, lastFetch,
                   rfFetched, sinkLs>>
    /\ UNCHANGED <<page_token, existing, listed, received, sweepOrder>>
    /\ UNCHANGED askVars

\* ----------------------------------------------------------------------
\* Operation poll loop
\* ----------------------------------------------------------------------
\* (faulty variant: the deadline itself still polls)
poll_loop_inclusive(t) == t <= deadline

\* while time.time() < deadline
poll_loop_condition(t) == t < deadline

\* (faulty variant: the wait grows with every fetch)
time_sleep_backoff(fetches) == PollSeconds * fetches

\* time.sleep(args.poll_seconds) after the fetch number `fetches`
time_sleep(fetches) == PollSeconds

\* the loop condition fails: the loop's else branch
OperationTimedOut ==
    /\ pc = "poll"
    /\ \E t \in ClockReadings :
         /\ ~poll_loop_condition(t)
         /\ now' = t
    /\ slept' = 0
    /\ Exit("OperationTimeout", 1, NoReport)
    /\ UNCHANGED <<variant, timeout, deadline, rf_deadline, op, opClass,
                   all_files, pages, names, pending, todo,
                   fetchFailed, refetched, opFetches, activeSeen, emptyListings, lastFetch,
                   rfFetched, sinkLs>>
    /\ UNCHANGED <<page_token, existing, submitResp, listed, received, sweepOrder, posts>>
    /\ UNCHANGED askVars

\* a response that is no successful fetch of the operation status
FailedFetch(r) == r.kind = "exc" \/ r.status # 200 \/ ~r.json

\* (faulty variant: the failed operation does not end the run)
AfterClassified_no_abort(v, class) ==
    IF v = "wait" THEN "discover" ELSE "sinkls"

\* where a script goes once the done snapshot is classified
AfterClassified(v, class) ==
    IF v = "wait"
    THEN IF class = "COMPLETED" THEN "discover" ELSE "done"
    ELSE "sinkls"

\* one iteration of the poll loop
PollOperation ==
    /\ pc = "poll"
    /\ \E t \in ClockReadings, r \in OpResponses :
         /\ poll_loop_condition(t)
         /\ fetchFailed' = (fetchFailed \/ FailedFetch(r))
         /\ refetched' = (refetched \/ fetchFailed)
         /\ opFetches' = opFetches + 1
         /\ posts' = Posts("get_operation")
         /\ LET res == GetOperation(variant, r) IN
            IF res # "none"
            THEN \* the fetch aborts the run
                 /\ Exit(res, 1, NoReport)
                 /\ now' = t
                 /\ slept' = 0
                 /\ UNCHANGED <<op, opClass, rf_deadline>>
            ELSE IF ~r.obj.done
            THEN \* "Not Complete": sleep and go round
                 /\ op' = r.obj
                 /\ now' = t
                 /\ slept' = time_sleep(opFetches + 1)
                 /\ Continue("poll")
                 /\ UNCHANGED <<opClass, rf_deadline>>
            ELSE LET class == Classify(variant, r.obj)
                     next == AfterClassified(variant, class) IN
                 /\ op' = r.obj
                 /\ opClass' = class
                 /\ slept' = 0
                 /\ IF next = "done"
                    THEN /\ Exit("OperationFailed", 1, NoReport)
                         /\ now' = t
                         /\ UNCHANGED rf_deadline
                    ELSE IF next = "discover"
                    THEN \* rf_deadline = time.time() + timeout
                         /\ \E t2 \in {t + d : d \in 0..MaxJump} :
                              /\ now' = t2
                              /\ rf_deadline' = convergence_deadline(t2)
                         /\ Continue("discover")
                    ELSE /\ now' = t
                         /\ Continue(next)
                         /\ UNCHANGED rf_deadline
    /\ UNCHANGED <<variant, timeout, deadline,
                   all_files, pages, names, pending, todo,
                   activeSeen, emptyListings, lastFetch, rfFetched, sinkLs>>
    /\ UNCHANGED <<page_token, existing, submitResp, listed, received, sweepOrder>>
    /\ UNCHANGED askVars

\* ----------------------------------------------------------------------
\* Discovery (import_and_wait_rag_files.py only)
\* ----------------------------------------------------------------------
\* the "ragFiles" of one page of the listing: the name of each record
PageContents == {<<>>, <<NoName>>, <<"r1">>, <<"r2">>}

\* What one GET of a page can bring; next: the page carries a nextPageToken.
ListResponses ==
    {[kind |-> "exc", status |-> 0, json |-> FALSE, files |-> <<>>, next |-> FALSE]}
    \cup {[kind |-> "resp", status |-> 200, json |-> TRUE, files |-> f, next |-> b] :
             f \in PageContents, b \in BOOLEAN}
    \cup {[kind |-> "resp", status |-> 200, json |-> FALSE, files |-> <<>>, next |-> FALSE]}
    \cup {[kind |-> "resp", status |-> 503, json |-> TRUE, files |-> <<>>, next |-> FALSE]}

\* [rf.get("name") for rf in rag_files if rf.get("name")]
RECURSIVE NamesOf(_)
NamesOf(files) ==
    IF files = <<>> THEN <<>>
    ELSE IF Head(files) = NoName THEN NamesOf(Tail(files))
    ELSE <<Head(files)>> \o NamesOf(Tail(files))

\* set(names)
SetOf(seq) == {seq[i] : i \in 1..Len(seq)}

\* (faulty variant: the listing is repeated whatever the clock says)
discovery_loop_no_deadline(t) == t = t

\* while time.time() < rf_deadline
discovery_loop_condition(t) == t < rf_deadline

\* the loop condition fails; names is empty here, so "if not names" exits
DiscoveryTimedOut ==
    /\ pc = "discover"
    /\ \E t \in ClockReadings :
         /\ ~discovery_loop_condition(t)
         /\ now' = t
    /\ slept' = 0
    /\ Exit("DiscoveryTimeout", 1, [count |-> Len(names), names |-> SetOf(names), detail |-> ""])
    /\ UNCHANGED <<variant, timeout, deadline, rf_deadline, op, opClass,
                   all_files, pages, names, pending, todo,
                   fetchFailed, refetched, opFetches, activeSeen, emptyListings, lastFetch,
                   rfFetched, sinkLs>>
    /\ UNCHANGED <<page_token, existing, submitResp, listed, received, sweepOrder, posts>>
    /\ UNCHANGED askVars

\* the loop is entered: list_rag_files starts with an empty accumulator
BeginListing ==
    /\ pc = "discover"
    /\ \E t \in ClockReadings :
         /\ discovery_loop_condition(t)
         /\ now' = t
    /\ slept' = 0
    /\ all_files' = <<>>
    /\ pages' = 0
    /\ received' = NothingReceived
    /\ page_token' = NoToken
    /\ Continue("listing")
    /\ UNCHANGED <<variant, timeout, deadline, rf_deadline, op, opClass,
                   names, pending, todo,
                   fetchFailed, refetched, opFetches, activeSeen, emptyListings, lastFetch,
                   rfFetched, sinkLs>>
    /\ UNCHANGED <<existing, submitResp, listed, sweepOrder, posts>>
    /\ UNCHANGED askVars

\* how often x occurs in a page
RECURSIVE Occurrences(_, _)
Occurrences(files, x) ==
    IF files = <<>> THEN 0
    ELSE (IF Head(files) = x THEN 1 ELSE 0) + Occurrences(Tail(files), x)

\* all_files.extend(resp.get("ragFiles", []))
extend(acc, files) == acc \o files

\* resp.get("nextPageToken") of a page that has one: a token the service
\* has not handed out for the page before
nextPageToken(tok) == IF tok = "t1" THEN "t2" ELSE "t1"

\* pages fetched, counted no further than MaxPages - 1: the pages beyond
\* that carry a token and no record
count_page(p) == IF p + 1 < MaxPages THEN p + 1 ELSE p

\* one page of list_rag_files; after the last page, the rest of the loop body
ListPage ==
    /\ pc = "listing"
    /\ \E r \in ListResponses :
         /\ r.next => (pages + 1 < MaxPages \/ r.files = <<>>)
         /\ listed' = TRUE
         /\ posts' = Posts("list")
         /\ IF http_json_fails(r)
            THEN /\ Exit("TransportError", 1, NoReport)
                 /\ UNCHANGED <<all_files, pages, names, pending, slept,
                                emptyListings, received, page_token>>
            ELSE LET acc == extend(all_files, r.files) IN
                 /\ received' = [x \in RagNames |->
                                    received[x] + Occurrences(r.files, x)]
                 /\ (~r.next) => existing \subseteq SetOf(acc)
                 /\ IF r.next
                    THEN /\ all_files' = acc
                         /\ pages' = count_page(pages)
                         /\ page_token' = nextPageToken(page_token)
                         /\ Continue("listing")
                         /\ UNCHANGED <<names, pending, slept, emptyListings>>
                    ELSE LET found == NamesOf(acc) IN
                         /\ all_files' = <<>>
                         /\ pages' = 0
                         /\ page_token' = NoToken
                         /\ names' = found
                         /\ IF found # <<>>
                            THEN \* break; pending = set(names)
                                 /\ pending' = SetOf(found)
                                 /\ Continue("activate")
                                 /\ UNCHANGED <<slept, emptyListings>>
                            ELSE \* "Not Complete": sleep and list again
                                 /\ slept' = PollSeconds
                                 /\ emptyListings' = emptyListings + 1
                                 /\ Continue("discover")
                                 /\ UNCHANGED pending
    /\ UNCHANGED <<variant, timeout, now, deadline, rf_deadline, op, opClass, todo,
                   fetchFailed, refetched, opFetches, activeSeen, lastFetch, rfFetched, sinkLs>>
    /\ UNCHANGED <<existing, submitResp, sweepOrder>>
    /\ UNCHANGED askVars

\* ----------------------------------------------------------------------
\* Activation (import_and_wait_rag_files.py only)
\* ----------------------------------------------------------------------
\* a RagFile: fileStatus.state and fileStatus.errorStatus ("" when missing)
RagFiles ==
    {[state |-> st, err |-> ""] : st \in {"absent", "PENDING", "ACTIVE", "ERROR"}}
    \cup {[state |-> "ERROR", err |-> "invalid encoding"]}

RagFileResponses ==
    {[kind |-> "exc", status |-> 0, json |-> FALSE, rf |-> [state |-> "absent", err |-> ""]]}
    \cup {[kind |-> "resp", status |-> 200, json |-> TRUE, rf |-> f] : f \in RagFiles}
    \cup {[kind |-> "resp", status |-> 503, json |-> TRUE, rf |-> [state |-> "absent", err |-> ""]]}

\* rag_file_state(rf): <<state, err>>
rag_file_state(rf) ==
    <<IF rf.state = "absent" THEN "STATE_UNSPECIFIED" ELSE rf.state, rf.err>>

\* (faulty variant: the sweeps go on whatever the clock says)
activation_loop_no_deadline(t) == t = t

\* while pending and time.time() < rf_deadline: the clock's part
activation_loop_condition(t) == t < rf_deadline

\* the loop condition fails with pending non-empty: "if pending" exits
ActivationTimedOut ==
    /\ pc = "activate"
    /\ pending # {}
    /\ \E t \in ClockReadings :
         /\ ~activation_loop_condition(t)
         /\ now' = t
    /\ slept' = 0
    /\ Exit("ActivationTimeout", 1,
            [count |-> Cardinality(pending), names |-> pending, detail |-> ""])
    /\ UNCHANGED <<variant, timeout, deadline, rf_deadline, op, opClass,
                   all_files, pages, names, pending, todo,
                   fetchFailed, refetched, opFetches, activeSeen, emptyListings, lastFetch,
                   rfFetched, sinkLs>>
    /\ UNCHANGED <<page_token, existing, submitResp, listed, received, sweepOrder, posts>>
    /\ UNCHANGED askVars

\* (faulty variant: the sweep goes over every discovered name)
list_pending_all_names(p) == SetOf(names)

\* list(pending): the names one sweep goes over, a copy taken as the sweep starts
list_pending(p) == p

\* the loop condition holds: the sweep iterates over list(pending)
BeginSweep ==
    /\ pc = "activate"
    /\ pending # {}
    /\ \E t \in ClockReadings :
         /\ activation_loop_condition(t)
         /\ now' = t
    /\ slept' = 0
    /\ todo' = list_pending(pending)
    /\ sweepOrder' = <<>>
    /\ Continue("sweep")
    /\ UNCHANGED <<variant, timeout, deadline, rf_deadline, op, opClass,
                   all_files, pages, names, pending,
                   fetchFailed, refetched, opFetches, activeSeen, emptyListings, lastFetch,
                   rfFetched, sinkLs>>
    /\ UNCHANGED <<page_token, existing, submitResp, listed, received, posts>>
    /\ UNCHANGED askVars

\* pending is empty: the loop ends without reading the clock, the run succeeds
AllActive ==
    /\ pc = "activate"
    /\ pending = {}
    /\ Exit("SUCCESS", 0, NoReport)
    /\ UNCHANGED <<variant, timeout, now, slept, deadline, rf_deadline, op, opClass,
                   all_files, pages, names, pending, todo,
                   fetchFailed, refetched, opFetches, activeSeen, emptyListings, lastFetch,
                   rfFetched, sinkLs>>
    /\ UNCHANGED <<page_token, existing, submitResp, listed, received, sweepOrder, posts>>
    /\ UNCHANGED askVars

\* (faulty variant: a RagFile in ERROR is polled again like a pending one)
SweepVerdict_error_kept(state) ==
    IF state = "ACTIVE" THEN "remove" ELSE "keep"

\* (faulty variant: a RagFile without a fileStatus.state counts as done)
SweepVerdict_unspecified_removed(state) ==
    IF state \in {"ACTIVE", "STATE_UNSPECIFIED"} THEN "remove"
    ELSE IF state = "ERROR" THEN "abort"
    ELSE "keep"

\* what the sweep does with the state of the RagFile it fetched
SweepVerdict(state) ==
    IF state = "ACTIVE" THEN "remove"
    ELSE IF state = "ERROR" THEN "abort"
    ELSE "keep"

\* one iteration of "for name in list(pending)"; after the last one, the sleep
FetchRagFile ==
    /\ pc = "sweep"
    /\ \E n \in todo, r \in RagFileResponses :
         /\ rfFetched' = TRUE
         /\ posts' = Posts("get_rag_file")
         /\ sweepOrder' = Append(sweepOrder, n)
         /\ todo' = todo \ {n}
         /\ IF http_json_fails(r)
            THEN /\ Exit("TransportError", 1, NoReport)
                 /\ UNCHANGED <<pending, activeSeen, slept, lastFetch>>
            ELSE LET st == rag_file_state(r.rf)
                     verdict == SweepVerdict(st[1]) IN
                 /\ lastFetch' = [name |-> n, state |-> r.rf.state, err |-> r.rf.err]
                 /\ activeSeen' = IF r.rf.state = "ACTIVE" /\ now < rf_deadline
                                  THEN activeSeen \cup {n} ELSE activeSeen
                 /\ IF verdict = "abort"
                    THEN /\ Exit("ResourceError", 1,
                                 [count |-> 1, names |-> {n},
                                  detail |-> IF st[2] = "" THEN "(no errorStatus provided)"
                                             ELSE st[2]])
                         /\ UNCHANGED <<pending, slept>>
                    ELSE /\ pending' = IF verdict = "remove" THEN pending \ {n} ELSE pending
                         /\ IF todo' = {}
                            THEN /\ slept' = IF pending' # {} THEN PollSeconds ELSE 0
                                 /\ Continue("activate")
                            ELSE /\ Continue("sweep")
                                 /\ UNCHANGED slept
    /\ UNCHANGED <<variant, timeout, now, deadline, rf_deadline, op, opClass,
                   all_files, pages, names,
                   fetchFailed, refetched, opFetches, emptyListings, sinkLs>>
    /\ UNCHANGED <<page_token, existing, submitResp, listed, received>>
    /\ UNCHANGED askVars

\* ----------------------------------------------------------------------
\* Sink listing (import_with_sink.py, import_with_sink_chunked.py)
\* ----------------------------------------------------------------------
\* run(["gsutil", "ls", ...]): return code 0, return code not 0, or gsutil
\* cannot be started and subprocess.run raises
LsResults == {"ok", "nonzero", "oserror"}

\* exit status of import_with_sink.py from the sink listing on
sink_exit(ls, o) ==
    IF ls = "oserror" THEN 1
    ELSE IF ls = "nonzero" THEN 1
    ELSE sink_return(o)

\* exit status of import_with_sink_chunked.py from the sink listing on
chunked_exit(ls, o) ==
    IF ls = "oserror" THEN 1
    ELSE chunked_return(o)

SinkOutcome(ls, code) ==
    IF ls = "oserror" THEN "Crash"
    ELSE IF code = 0 THEN "SUCCESS"
    ELSE "OperationFailed"

SinkListing ==
    /\ pc = "sinkls"
    /\ \E ls \in LsResults :
         LET code == IF variant = "sink" THEN sink_exit(ls, op) ELSE chunked_exit(ls, op) IN
         /\ sinkLs' = ls
         /\ Exit(SinkOutcome(ls, code), code, NoReport)
    /\ UNCHANGED <<variant, timeout, now, slept, deadline, rf_deadline, op, opClass,
                   all_files, pages, names, pending, todo,
                   fetchFailed, refetched, opFetches, activeSeen, emptyListings, lastFetch,
                   rfFetched>>
    /\ UNCHANGED <<page_token, existing, submitResp, listed, received, sweepOrder, posts>>
    /\ UNCHANGED askVars

\* ----------------------------------------------------------------------
\* One request to /api/ask (demo_app/main.py)
\* ----------------------------------------------------------------------
\* an entry of the contexts list: an object with a text, an object without a
\* text, an object whose score is NaN, or a JSON value that is no object
ContextKinds == {"text", "blank", "nan", "nondict"}

ContextLists == UNION {[1..n -> ContextKinds] : n \in 0..MaxContexts}

\* what a POST of the application can bring: the transport raises, or a
\* response with a status and a body (no JSON, a JSON value that is no object,
\* an object without the expected member, an object with it)
AskBodies == {"notjson", "nondict", "empty", "full"}

AskResponses ==
    {[kind |-> "exc", status |-> 0, body |-> "notjson"]}
    \cup {[kind |-> "resp", status |-> 200, body |-> b] : b \in AskBodies}
    \cup {[kind |-> "resp", status |-> 503, body |-> b] : b \in {"notjson", "empty"}}

\* retrieve_contexts: the exception it raises, "none" when it returns
retrieve_contexts(r) ==
    IF r.kind = "exc" THEN "RequestException"
    ELSE IF r.status >= 400 THEN "RuntimeError"
    ELSE IF r.body = "notjson" THEN "JSONDecodeError"
    ELSE IF r.body = "nondict" THEN "AttributeError"
    ELSE "none"

\* (data.get("contexts") or {}).get("contexts") or []
retrieved(r, cs) == IF r.body = "full" THEN cs ELSE <<>>

\* generate_answer: the exception it raises, "none" when it returns; c.get
\* of an entry that is no object raises before the request is sent
generate_answer(cs, r) ==
    IF \E i \in 1..Len(cs) : cs[i] = "nondict" THEN "AttributeError"
    ELSE IF r.kind = "exc" THEN "RequestException"
    ELSE IF r.status >= 400 THEN "RuntimeError"
    ELSE IF r.body = "notjson" THEN "JSONDecodeError"
    ELSE "none"

\* the text of the first candidate, or str(data) when there is none
answer_text(r) == IF r.body = "full" THEN "text" ELSE "raw"

\* JSONResponse(...) renders with allow_nan=False
render(cs) ==
    IF \E i \in 1..Len(cs) : cs[i] = "nan" THEN "ValueError" ELSE "none"

\* (faulty variant: only the RuntimeError of a status >= 400 is caught)
ask_except_runtime_only(e) == e = "RuntimeError"

\* "except Exception as e" of ask: TRUE when the exception is caught
ask_except(e) == TRUE

\* an exception raised inside the try block of ask
Raised(e) ==
    /\ askError' = e
    /\ askPc' = "done"
    /\ IF ask_except(e)
       THEN /\ askStatus' = 500
            /\ askBody' = "error"
            /\ escaped' = FALSE
       ELSE /\ escaped' = TRUE
            /\ UNCHANGED <<askStatus, askBody>>

\* contexts = retrieve_contexts(req.question, TOP_K)
RetrieveContexts ==
    /\ askPc = "retrieve"
    /\ \E r \in AskResponses, cs \in ContextLists :
         LET e == retrieve_contexts(r) IN
         IF e # "none"
         THEN /\ retrieveFailed' = TRUE
              /\ Raised(e)
              /\ UNCHANGED contexts
         ELSE /\ contexts' = retrieved(r, cs)
              /\ askPc' = "generate"
              /\ UNCHANGED <<retrieveFailed, askStatus, askBody, escaped, askError>>
    /\ UNCHANGED <<generateFailed, generateCalls, answer>>
    /\ UNCHANGED importVars

\* answer = generate_answer(req.question, contexts)
GenerateAnswer ==
    /\ askPc = "generate"
    /\ generateCalls' = generateCalls + 1
    /\ \E r \in AskResponses :
         LET e == generate_answer(contexts, r) IN
         IF e # "none"
         THEN /\ generateFailed' = TRUE
              /\ Raised(e)
              /\ UNCHANGED answer
         ELSE /\ answer' = answer_text(r)
              /\ askPc' = "respond"
              /\ UNCHANGED <<generateFailed, askStatus, askBody, escaped, askError>>
    /\ UNCHANGED <<contexts, retrieveFailed>>
    /\ UNCHANGED importVars

\* return JSONResponse({"answer": ..., "contexts": [...]})
Respond ==
    /\ askPc = "respond"
    /\ LET e == render(contexts) IN
       IF e # "none"
       THEN Raised(e)
       ELSE /\ askStatus' = 200
            /\ askBody' = "answer"
            /\ askPc' = "done"
            /\ UNCHANGED <<escaped, askError>>
    /\ UNCHANGED <<contexts, retrieveFailed, generateFailed, generateCalls, answer>>
    /\ UNCHANGED importVars

\* a request arrives at /api/ask; no import script is part of this run
AskInit ==
    /\ variant = "wait"
    /\ timeout = 0
    /\ existing = {}
    /\ ImportStart
    /\ askPc = "retrieve"
    /\ contexts = <<>>
    /\ askStatus = 0
    /\ askBody = "none"
    /\ retrieveFailed = FALSE
    /\ generateFailed = FALSE
    /\ generateCalls = 0
    /\ escaped = FALSE
    /\ answer = "none"
    /\ askError = "none"

AskNext ==
    \/ RetrieveContexts
    \/ GenerateAnswer
    \/ Respond

AskSpec == AskInit /\ [][AskNext]_vars

\* ----------------------------------------------------------------------
Next ==
    \/ BadArguments
    \/ Submit
    \/ OperationTimedOut
    \/ PollOperation
    \/ DiscoveryTimedOut
    \/ BeginListing
    \/ ListPage
    \/ ActivationTimedOut
    \/ BeginSweep
    \/ AllActive
    \/ FetchRagFile
    \/ SinkListing

Spec == Init /\ [][Next]_vars

\* every remote call returns and the script takes its next step
FairSpec == Spec /\ WF_vars(Next)

\* ----------------------------------------------------------------------
\* Properties
\* ----------------------------------------------------------------------
TypeOK ==
    /\ page_token \in {NoToken, "t1", "t2"}
    /\ askPc \in {"off", "retrieve", "generate", "respond", "done"}
    /\ contexts \in ContextLists
    /\ askStatus \in {0, 200, 500}
    /\ askBody \in {"none", "answer", "error"}
    /\ retrieveFailed \in BOOLEAN
    /\ generateFailed \in BOOLEAN
    /\ generateCalls \in 0..1
    /\ escaped \in BOOLEAN
    /\ answer \in {"none", "text", "raw"}
    /\ askError \in {"none", "RequestException", "RuntimeError", "JSONDecodeError",
                      "AttributeError", "ValueError"}
    /\ variant \in Variants
    /\ pc \in {"start", "poll", "discover", "listing", "activate", "sweep", "sinkls", "done"}
    /\ op \in OpObjects
    /\ opClass \in {"none", "COMPLETED", "FAILED"}
    /\ pending \subseteq RagNames
    /\ todo \subseteq RagNames
    /\ exitCode \in {Running, 0, 1, 2}
    /\ (pc = "done") = (exitCode # Running)
    /\ (pc = "done") = (outcome # "none")

\* the snapshot carries no error: the field is missing or an empty object
NoError(o) == o.error # "set"

\* the snapshot reports nothing failed
CleanSnapshot(o) == o.done /\ NoError(o) /\ o.pf = 0 /\ FailedCount(o) = 0

\* every discovered name was fetched in state ACTIVE before the deadline
AllSeenActive == names # <<>> /\ SetOf(names) \subseteq activeSeen

\* C1: a run of import_and_wait_rag_files ends in success (exit status 0,
\* final SUCCESS) if and only if the done snapshot was clean, at least one
\* name was discovered and every discovered name was seen ACTIVE before the
\* convergence deadline; every other run ends with a non-zero exit status.
C1_SuccessIff ==
    (variant = "wait" /\ pc = "done") =>
        /\ (exitCode = 0) <=> (CleanSnapshot(op) /\ AllSeenActive)
        /\ (exitCode = 0) <=> (outcome = "SUCCESS")
        /\ exitCode \in {0, 1}

C1_Witness ==
    /\ variant = "wait"
    /\ pc = "done"
    /\ exitCode = 0
    /\ Cardinality(SetOf(names)) = 2
    /\ activeSeen = RagNames

C3_SinkListingIsReportingOnly ==
    (variant \in SinkVariants /\ pc = "done" /\ sinkLs # "none"
        /\ opClass = "COMPLETED" /\ op.error = "absent") => exitCode = 0

\* C4: a done snapshot is classified COMPLETED exactly when it has no error,
\* a failed count of 0 and no partial failures, and FAILED otherwise; this
\* holds in all three scripts, and every done snapshot fetched is classified.
C4_Classification ==
    /\ op.done => opClass \in {"COMPLETED", "FAILED"}
    /\ opClass # "none" =>
          /\ op.done
          /\ (opClass = "COMPLETED") <=> (NoError(op) /\ FailedCount(op) = 0 /\ op.pf = 0)
          /\ (opClass = "FAILED") <=> (~NoError(op) \/ FailedCount(op) > 0 \/ op.pf > 0)

C4_Witness ==
    /\ variant = "chunked"
    /\ opClass = "FAILED"
    /\ op.error = "absent"
    /\ FailedCount(op) = 0
    /\ op.pf > 0

\* C5 as stated: a run that printed a FAILED result exits with a non-zero
\* status, and a run that exits 0 determined no FAILED result.
C5_FailedExitsNonZero ==
    (pc = "done" /\ opClass = "FAILED") => exitCode # 0

\* C6 as stated: a failed fetch of the operation status ends the run at once
\* with a failure; it is never followed by another fetch.
C6_FailedFetchAborts ==
    fetchFailed => (pc = "done" /\ exitCode \notin {Running, 0} /\ ~refetched)

\* C7: once a pending RagFile was fetched in state ERROR the run is over with
\* ResourceError, exit status 1, naming that RagFile and its errorStatus; the
\* names the sweep had not reached are still pending and none of them counts
\* as ACTIVE; nothing is fetched afterwards.
C7_ErrorAborts ==
    /\ lastFetch.state = "ERROR" =>
          /\ pc = "done"
          /\ outcome = "ResourceError"
          /\ exitCode = 1
          /\ report.names = {lastFetch.name}
          /\ report.detail = (IF lastFetch.err = "" THEN "(no errorStatus provided)"
                              ELSE lastFetch.err)
          /\ lastFetch.name \in pending
          /\ todo \subseteq pending
          /\ todo \cap activeSeen = {}
    /\ outcome = "ResourceError" => lastFetch.state = "ERROR"

C7_Witness ==
    /\ outcome = "ResourceError"
    /\ report.detail = "invalid encoding"
    /\ todo # {}

\* C8: when a reading of the clock in the activation phase is not before the
\* convergence deadline while names are pending, the run ends with
\* ActivationTimeout, reporting the count and the names still pending; a run
\* does not succeed with a name pending at such a reading.
C8_ActivationTimeout ==
    /\ (names # <<>> /\ pending # {} /\ now >= rf_deadline) =>
          /\ pc = "done"
          /\ outcome = "ActivationTimeout"
          /\ exitCode = 1
          /\ report.count = Cardinality(pending)
          /\ report.names = pending
    /\ outcome = "ActivationTimeout" => (pending # {} /\ now >= rf_deadline)
    /\ pc = "sweep" => now < rf_deadline
    /\ outcome = "SUCCESS" /\ variant = "wait" => (pending = {} /\ now < rf_deadline)

C8_Witness ==
    /\ outcome = "ActivationTimeout"
    /\ activeSeen # {}
    /\ report.count = 1
    /\ rfFetched

\* C9: the corpus is listed again, one poll interval after each empty
\* listing, until a listing brings a name; listings are only taken while the
\* clock is before the discovery deadline; if none of them brought a name,
\* the run ends with DiscoveryTimeout, reports no resource and has fetched
\* no resource.
C9_Discovery ==
    /\ pc = "discover" => slept = (IF emptyListings > 0 THEN PollSeconds ELSE 0)
    /\ pc = "listing" => now < rf_deadline
    /\ pc \in {"discover", "listing"} => names = <<>>
    /\ pc \in {"activate", "sweep"} => names # <<>>
    /\ names = <<>> => (~rfFetched /\ pending = {})
    /\ outcome = "DiscoveryTimeout" =>
          /\ names = <<>>
          /\ report.count = 0
          /\ report.names = {}
          /\ now >= rf_deadline
          /\ exitCode = 1
    /\ (variant = "wait" /\ pc = "done" /\ opClass = "COMPLETED" /\ names = <<>>
          /\ outcome # "TransportError") => outcome = "DiscoveryTimeout"

C9_Witness ==
    /\ outcome = "DiscoveryTimeout"
    /\ emptyListings = 2

\* C10 as stated: the poller times out only when the time elapsed since the
\* deadline was set exceeds the timeout.
C10_TimeoutOnlyWhenExceeded ==
    outcome = "OperationTimeout" => now - (deadline - timeout) > timeout

\* C10 amended: the poller times out exactly when a reading of the clock at
\* the head of the poll loop finds that the time elapsed since the deadline
\* was set has reached (is equal to or greater than) the timeout, no fetched
\* snapshot having had done = true; a fetched done snapshot is always
\* classified and never discarded as a timeout.
C10_TimeoutInv ==
    /\ outcome = "OperationTimeout" =>
          /\ now - (deadline - timeout) >= timeout
          /\ ~op.done
          /\ opClass = "none"
    /\ op.done => (opClass \in {"COMPLETED", "FAILED"} /\ outcome # "OperationTimeout")

C10_TimeoutExactly ==
    /\ []C10_TimeoutInv
    /\ [][(pc = "poll" /\ ~op'.done /\ now' - (deadline - timeout) >= timeout)
             => outcome' = "OperationTimeout"]_vars

C10_Witness ==
    /\ outcome = "OperationTimeout"
    /\ now = deadline
    /\ opFetches > 0

\* C11 as stated: after a snapshot with done = false the poller fetches the
\* operation again: at the head of the poll loop, a fetch having been made,
\* the next step is another fetch.
C11_AlwaysFetchesAgain ==
    [][(pc = "poll" /\ opFetches > 0) => opFetches' = opFetches + 1]_vars

\* C11 amended: a snapshot with done = false sends the poller back to the
\* head of the poll loop after one sleep of the poll interval, the same for
\* every fetch; from there the operation is fetched again, no sooner than one
\* poll interval after the previous reading of the clock, unless the clock
\* has reached the deadline, which ends the run with OperationTimeout and
\* without another fetch.
C11_NotDoneInv ==
    (pc = "poll" /\ opFetches > 0) => (~op.done /\ opClass = "none" /\ slept = PollSeconds)

C11_RepollAfterOneInterval ==
    /\ []C11_NotDoneInv
    /\ [][(opFetches' = opFetches + 1 /\ ~op'.done /\ outcome' = "none")
             => (pc' = "poll" /\ slept' = PollSeconds)]_vars
    /\ [][(pc = "poll" /\ opFetches > 0) =>
             /\ now' >= now + PollSeconds
             /\ \/ opFetches' = opFetches + 1
                \/ (opFetches' = opFetches /\ outcome' = "OperationTimeout"
                      /\ now' >= deadline)]_vars

C11_Witness ==
    /\ pc = "poll"
    /\ opFetches = 2
    /\ slept = PollSeconds

\* the import request brought an operation name
SubmitReturnedName ==
    submitResp.kind = "resp" /\ submitResp.json /\ submitResp.named

\* C12: the stages run in order and an abort halts the run: the operation is
\* fetched only after the import request returned an operation name, the
\* corpus is listed only after the done snapshot was classified COMPLETED, a
\* RagFile is fetched only after a listing brought a name, and once the
\* outcome is determined no request is made any more.
C12_StageOrderInv ==
    /\ opFetches > 0 => SubmitReturnedName
    /\ listed => (opFetches > 0 /\ op.done /\ opClass = "COMPLETED")
    /\ pc \in {"discover", "listing"} => opClass = "COMPLETED"
    /\ rfFetched => (listed /\ names # <<>>)
    /\ pc \in {"activate", "sweep"} => (listed /\ names # <<>>)
    /\ outcome # "none" => pc = "done"

C12_StageOrder ==
    /\ []C12_StageOrderInv
    /\ [][outcome # "none" =>
             /\ posts' = posts
             /\ opFetches' = opFetches
             /\ listed' = listed
             /\ rfFetched' = rfFetched
             /\ sweepOrder' = sweepOrder]_vars

C12_Witness ==
    /\ pc = "done"
    /\ outcome = "ResourceError"
    /\ SubmitReturnedName
    /\ opFetches = 2
    /\ listed
    /\ rfFetched

\* the run ended at the import request: failure outcome, exit 1, nothing polled
SubmitFailed ==
    /\ pc = "done"
    /\ outcome \in {"SubmissionError", "Crash"}
    /\ exitCode = 1
    /\ opFetches = 0

\* the transport raised or the body of the import response was not JSON
SubmitFault ==
    submitResp.kind = "exc" \/ ~submitResp.json

\* C13: in every variant the submission fails (failure outcome, exit code 1,
\* no poll of the operation) exactly when the import request was answered
\* with a status outside 2xx or with a body without "name", or when the
\* transport raised or the body could not be parsed.
C13_SubmitFailsIff ==
    (submitResp # NoSubmit) =>
        (SubmitFailed <=>
            \/ SubmitFault
            \/ ~(200 <= submitResp.status /\ submitResp.status < 300)
            \/ ~submitResp.named)

\* what the three scripts do: the sink scripts refuse only a status >= 400
C13_SubmitFailsAsCoded ==
    (submitResp # NoSubmit) =>
        (SubmitFailed <=>
            \/ SubmitFault
            \/ IF variant = "wait"
               THEN ~(200 <= submitResp.status /\ submitResp.status < 300)
               ELSE submitResp.status >= 400
            \/ ~submitResp.named)

\* C14: the working set of the tracker holds only RagFiles materialized by
\* this import: a RagFile that was in the corpus before the import request is
\* never pending, is never fetched by a sweep, and is never the resource a
\* ResourceError reports.
C14_OnlyNewResources ==
    /\ pending \cap existing = {}
    /\ \A i \in 1..Len(sweepOrder) : sweepOrder[i] \notin existing
    /\ outcome = "ResourceError" => report.names \cap existing = {}

\* C15: in ask, every failure of retrieve_contexts or generate_answer (a status
\* >= 400 or any other exception) ends in the response {"error": ...} with
\* status 500; no exception leaves the handler, and generate_answer is not
\* called once retrieve_contexts has failed.
C15_FailuresCaught ==
    /\ ~escaped
    /\ (retrieveFailed \/ generateFailed) =>
           /\ askPc = "done"
           /\ askStatus = 500
           /\ askBody = "error"
           /\ askError # "none"
    /\ retrieveFailed => (generateCalls = 0 /\ ~generateFailed /\ answer = "none")
    /\ askError # "none" => (askStatus = 500 /\ askBody = "error")
    /\ askStatus = 200 => (askBody = "answer" /\ ~retrieveFailed /\ ~generateFailed)

C15_Witness ==
    /\ askPc = "done"
    /\ generateFailed
    /\ askError = "RequestException"
    /\ Len(contexts) = MaxContexts

\* a listing has returned and the script works on its names
ListingReturned == pc \in {"discover", "activate", "sweep"} /\ listed

\* C16: list_rag_files follows the page tokens to the last page and returns
\* what the pages brought as one set: every name a page brought is in the
\* result, and no name is in it twice, even when two pages brought it.
C16_ListingIsSet ==
    /\ pc = "listing" => \A n \in RagNames : Occurrences(all_files, n) <= 1
    /\ \A n \in RagNames : Occurrences(names, n) <= 1
    /\ ListingReturned =>
           \A n \in RagNames : received[n] > 0 <=> Occurrences(names, n) = 1

\* what list_rag_files does: the pages are concatenated, so a name is in the
\* result as often as the pages brought it; main makes the set (pending)
C16_ListingAsCoded ==
    /\ ListingReturned => \A n \in RagNames : Occurrences(names, n) = received[n]
    /\ pc = "activate" /\ ~rfFetched => pending = SetOf(names)

\* the names the current sweep has fetched
Swept == SetOf(sweepOrder)

\* C17: one sweep fetches every RagFile that was pending when it started
\* exactly once before the script sleeps (unless a fetch ends the run), and
\* a RagFile once seen ACTIVE is not fetched again by any later sweep.
C17_SweepInv ==
    /\ \A i, j \in 1..Len(sweepOrder) : i # j => sweepOrder[i] # sweepOrder[j]
    /\ todo \cap Swept = {}
    /\ pc = "sweep" =>
           /\ todo \subseteq pending
           /\ todo \cup Swept = pending \cup (Swept \cap activeSeen)
    /\ pc = "activate" =>
           /\ todo = {}
           /\ pending \cap activeSeen = {}
           /\ rfFetched => pending \subseteq Swept

C17_SweepOnce ==
    /\ []C17_SweepInv
    /\ [][(pc = "activate" /\ pc' = "sweep") =>
             (todo' = pending /\ sweepOrder' = <<>>)]_vars
    /\ [][(Len(sweepOrder') = Len(sweepOrder) + 1) =>
             /\ sweepOrder'[Len(sweepOrder')] \in pending
             /\ sweepOrder'[Len(sweepOrder')] \notin activeSeen]_vars
    /\ [][(pc = "sweep" /\ pc' = "activate") =>
             /\ pending \subseteq (Swept' \cup activeSeen')
             /\ pending' # {} => slept' = PollSeconds]_vars

C17_Witness ==
    /\ pc = "activate"
    /\ activeSeen = {"r1"}
    /\ pending = {"r2"}
    /\ sweepOrder = <<"r2">>
    /\ slept = PollSeconds

\* C18: the deadline of the operation and the deadline of the convergence are
\* two deadlines, each computed once from the clock as its phase starts (after
\* the import request; after the operation is classified COMPLETED) and never
\* changed afterwards, so the time the polling took is not taken from the
\* budget of the convergence.
C18_DeadlineInv ==
    /\ pc # "start" /\ opFetches > 0 => deadline <= now + timeout
    /\ pc \in {"discover", "listing", "activate", "sweep"} =>
           /\ rf_deadline >= deadline
           /\ rf_deadline <= now + timeout
    /\ (variant # "wait" \/ opClass # "COMPLETED") => rf_deadline = 0

C18_IndependentDeadlines ==
    /\ []C18_DeadlineInv
    /\ [][pc # "start" => deadline' = deadline]_vars
    /\ [][(pc = "start" /\ pc' = "poll") => deadline' = now' + timeout]_vars
    /\ [][(pc = "poll" /\ pc' = "discover") =>
             /\ opClass' = "COMPLETED"
             /\ rf_deadline' = now' + timeout
             /\ now' >= now]_vars
    /\ [][pc # "poll" => rf_deadline' = rf_deadline]_vars
    /\ [][(pc = "poll" /\ pc' # "discover") => rf_deadline' = rf_deadline]_vars

C18_Witness ==
    /\ pc = "discover"
    /\ opFetches = 2
    /\ timeout = MaxTimeout
    /\ rf_deadline = now + timeout
    /\ rf_deadline > deadline

\* where the listing brought x first
FirstIndex(seq, x) ==
    CHOOSE i \in 1..Len(seq) : seq[i] = x /\ \A j \in 1..(i - 1) : seq[j] # x

\* C19: a sweep fetches the pending RagFiles in the order in which the
\* discovery listed them, so of several RagFiles in ERROR the one listed
\* first is the one reported.
C19_InsertionOrder ==
    \A i, j \in 1..Len(sweepOrder) :
        i < j => FirstIndex(names, sweepOrder[i]) < FirstIndex(names, sweepOrder[j])

\* C20: a run sends the import request once, and it is the only request that
\* changes anything remote: the fetches of the operation, the listing and the
\* fetches of the RagFiles are GET requests, and after a failure or a timeout
\* the import request is not sent again.  (A run refused for its arguments
\* sends no request at all.)
C20_SubmitOnceInv ==
    /\ posts <= 1
    /\ posts = 1 <=> submitResp # NoSubmit
    /\ (pc # "start" /\ outcome # "UsageError") => posts = 1
    /\ (opFetches > 0 \/ listed \/ rfFetched) => posts = 1
    /\ \A call \in {"get_operation", "list", "get_rag_file"} : RequestMethod(call) = "GET"

C20_SubmitOnce ==
    /\ []C20_SubmitOnceInv
    /\ [][pc # "start" => (posts' = posts /\ submitResp' = submitResp)]_vars

C20_Witness ==
    /\ pc = "done"
    /\ outcome = "ActivationTimeout"
    /\ opFetches > 1
    /\ listed
    /\ rfFetched
    /\ posts = 1

\* C21: every run reaches a terminal outcome and exits, provided the clock
\* advances and each remote call returns; no phase loops forever, the
\* pagination loop of list_rag_files included.
C21_Terminates == <>(pc = "done")

\* what the loops do: every run ends unless a listing goes on for ever, the
\* service handing out one more nextPageToken with every page
C21_TerminatesUnlessPaging == <>(pc = "done") \/ <>[](pc = "listing")

\* C22: pending is fixed by the first listing that brings a name and only
\* shrinks afterwards: it is always a subset of the names of that listing, a
\* name leaves it only when a fetch of that name has returned ACTIVE, and no
\* name is ever added.
C22_PendingInv ==
    /\ pending \subseteq SetOf(names)
    /\ names # <<>> => pending = SetOf(names) \ activeSeen
    /\ names = <<>> => (pending = {} /\ ~rfFetched)

C22_PendingOnlyShrinks ==
    /\ []C22_PendingInv
    /\ [][names # <<>> => (names' = names /\ pending' \subseteq pending)]_vars
    /\ [][names = <<>> => pending' = SetOf(names')]_vars
    /\ [][\A n \in pending \ pending' :
             /\ pc = "sweep"
             /\ lastFetch' = [name |-> n, state |-> "ACTIVE", err |-> lastFetch'.err]
             /\ sweepOrder' = Append(sweepOrder, n)]_vars

C22_Witness ==
    /\ pc = "done"
    /\ outcome = "ActivationTimeout"
    /\ names = <<"r2", "r1">>
    /\ pending = {"r1"}
    /\ activeSeen = {"r2"}

====
